---- MODULE Spec2Model ----
(***************************************************************************)
(* XHRConnection (src/src/XHRConnection.js): one request/response exchange *)
(* as a stateful, event-emitting connection.  The model follows the        *)
(* browser's single-threaded event loop: every action below is one turn of *)
(* the loop (a user call, a transport callback, a zero-delay timer), run   *)
(* to completion.                                                          *)
(*                                                                         *)
(* The transport (XMLHttpRequest) and the timer queue (window.setTimeout)  *)
(* are the environment.  The transport may raise progress, load, error and *)
(* timeout at any time after the handlers are wired and the request is     *)
(* sent, any number of times (section 5 of the specification speaks of     *)
(* error and timeout firing in quick succession); it raises abort once for *)
(* an abort() that was requested.  Transport calls are assumed not to      *)
(* throw.  Zero-delay timers run in the order they were scheduled.         *)
(*                                                                         *)
(* Spec draws the constructor's headers option from a header object and a  *)
(* string; SpecNullHeaders adds headers: null, which the constructor's     *)
(* typeof check lets through and on which open() throws at Object.keys.    *)
(***************************************************************************)
EXTENDS Integers, Sequences, FiniteSets, TLC

\* ------------------------------------------------------------------ bounds
\* transport signals handled on one connection
MaxSignals == 2
\* addListener calls made after construction (the constructor's listeners option
\* registers its own on top)
MaxListeners == 1

\* --------------------------------------------------------------- constants
Null == 0

INIT == "INIT"
OPEN == "OPEN"
CLOSED == "CLOSED"
States == {INIT, OPEN, CLOSED}

Kinds == {"OPEN", "DATA", "ERROR", "COMPLETE", "ABORT"}

ALLOWED_METHODS == {"GET", "POST", "PUT", "DELETE"}
ALLOWED_RESPONSE_TYPES == {"arraybuffer", "blob", "document", "json", "text"}

ErrorStatus == 400

\* ------------------------------------------------------------------ inputs
MethodInputs == {"GET", "PATCH"}
ResponseTypeInputs == {"json", "xml"}
TimeoutInputs ==
  { [isSafeInteger |-> TRUE, value |-> 0],
    [isSafeInteger |-> TRUE, value |-> 0 - 1],
    [isSafeInteger |-> FALSE, value |-> 1] }
DefaultHeaders ==
  [typeof |-> "object", isNull |-> FALSE,
   entries |-> << [key |-> "Accept", val |-> "application/json", nil |-> FALSE] >>]
HeaderInputs ==
  { [typeof |-> "object", isNull |-> FALSE,
     entries |-> << [key |-> "Accept", val |-> "text/plain", nil |-> FALSE],
                    [key |-> "X-Skip", val |-> "", nil |-> TRUE] >>],
    [typeof |-> "string", isNull |-> FALSE, entries |-> << >>] }
\* typeof null === "object"
NullHeaders == [typeof |-> "object", isNull |-> TRUE, entries |-> << >>]
NoHeaders == [typeof |-> "undefined", isNull |-> FALSE, entries |-> << >>]
OpenHeaderInputs ==
  { [typeof |-> "object", isNull |-> FALSE,
     entries |-> << [key |-> "X-Extra", val |-> "1", nil |-> FALSE],
                    [key |-> "X-None", val |-> "", nil |-> TRUE] >>] }
ListenerInputs ==
  { [isObject |-> TRUE, type |-> k, callbackIsFn |-> TRUE] : k \in {"OPEN", "DATA", "BOGUS"} }
    \cup { [isObject |-> FALSE, type |-> "OPEN", callbackIsFn |-> TRUE],
           [isObject |-> TRUE, type |-> "OPEN", callbackIsFn |-> FALSE] }
ListenerSeqInputs == { << >> } \cup { << l >> : l \in ListenerInputs }
OptionInputs ==
  [ method : MethodInputs,
    responseType : ResponseTypeInputs,
    headers : HeaderInputs,
    timeout : TimeoutInputs,
    listenersIsArray : BOOLEAN,
    listeners : ListenerSeqInputs,
    open : BOOLEAN ]
NullHeaderOptionInputs ==
  [ method : {"GET"},
    responseType : {"json"},
    headers : {NullHeaders},
    timeout : {[isSafeInteger |-> TRUE, value |-> 0]},
    listenersIsArray : {TRUE},
    listeners : {<< >>, << [isObject |-> TRUE, type |-> "OPEN", callbackIsFn |-> TRUE] >>},
    open : BOOLEAN ]
StatusInputs == {200, 399, 400}

\* ------------------------------------------------------------------- state
VARIABLES
  phase,        \* "new" (super(url) done), "ready" (constructed), "failed" (threw)
  config,       \* the options given to the constructor, which stores method, headers,
                \* responseType and timeout from them
  state,        \* INIT, OPEN, CLOSED
  opened,       \* Null or the time of the OPEN transition
  closed,       \* Null or the time of the CLOSED transition
  listeners,    \* kind -> sequence of registered callbacks, each known by its identity
  nextId,       \* identity of the next callback to be registered
  xhrCreated,   \* the XMLHttpRequest handle exists
  xhrCalls,     \* the steps of open(), in order: its calls on the handle and, between
                \* them, its own state change, time stamp and timer
  xhrStatus,    \* xhr.status
  abortPending, \* xhr.abort() was called and its abort signal is still to come
  timers,       \* kinds of the zero-delay timers scheduled with window.setTimeout, FIFO
  emitted,      \* kind -> number of emit(kind, ...) calls so far
  calls,        \* the listener invocations of the current turn, in order, with the
                \* state each observed
  now,          \* the latest reading of Date.now()
  signals,      \* transport signals handled so far
  signal,       \* the transport signal handled in the current turn, or "none"
  initClose,    \* close() has been called in state INIT
  call          \* the user call made in the current turn and what it returned

vars == << phase, config, state, opened, closed, listeners, nextId, xhrCreated,
           xhrCalls, xhrStatus, abortPending, timers, emitted, calls, now,
           signals, signal, initClose, call >>

NoCall == [op |-> "none", ret |-> "undefined"]

NoConfig ==
  [method |-> "GET", responseType |-> "json", headers |-> DefaultHeaders,
   timeout |-> [isSafeInteger |-> TRUE, value |-> 0], listenersIsArray |-> TRUE,
   listeners |-> << >>, open |-> FALSE]

Init ==
  /\ phase = "new"
  /\ config = NoConfig
  /\ state = INIT
  /\ opened = Null
  /\ closed = Null
  /\ listeners = [k \in Kinds |-> << >>]
  /\ nextId = 1
  /\ xhrCreated = FALSE
  /\ xhrCalls = << >>
  /\ xhrStatus = 0
  /\ abortPending = FALSE
  /\ timers = << >>
  /\ emitted = [k \in Kinds |-> 0]
  /\ calls = << >>
  /\ now = 0
  /\ signals = 0
  /\ signal = "none"
  /\ initClose = FALSE
  /\ call = NoCall

\* ----------------------------------------------------------------- helpers
XhrCall(c, a) == [call |-> c, arg |-> a]

\* a step of open() that is not a call on the handle
OwnStep(c, a) == [call |-> c, arg |-> a]

\* Date.now(): every reading is later than the one before (the code never compares
\* two readings, so equal readings add no behaviour)
DateNow == now + 1

\* window.setTimeout(() => this.emit(kind, new ConnectionEvent(this, kind)), 0)
SetTimeout(q, kind) == Append(q, kind)

\* the setRequestHeader calls of one header object: null/undefined values are skipped
RECURSIVE HeaderCalls(_)
HeaderCalls(es) ==
  IF es = << >> THEN << >>
  ELSE (IF Head(es).nil THEN << >> ELSE << XhrCall("setRequestHeader", Head(es).key) >>)
       \o HeaderCalls(Tail(es))

\* the five addEventListener calls of open()
WireCalls ==
  << XhrCall("addEventListener", "progress"), XhrCall("addEventListener", "load"),
     XhrCall("addEventListener", "abort"), XhrCall("addEventListener", "error"),
     XhrCall("addEventListener", "timeout") >>

Wired(sig) == \E i \in 1..Len(xhrCalls) : xhrCalls[i] = XhrCall("addEventListener", sig)

RECURSIVE Count(_, _)
Count(x, s) == IF s = << >> THEN 0 ELSE (IF Head(s) = x THEN 1 ELSE 0) + Count(x, Tail(s))

SendCount == Count(XhrCall("send", "body"), xhrCalls)

\* how many emissions of kind k were ever scheduled: delivered ones and pending ones
Enqueued(k) == emitted[k] + Count(k, timers)

\* emit(kind, event): every callback registered for kind, in registration order
Emit(kind) ==
  [i \in 1..Len(listeners[kind]) |->
     [kind |-> kind, listener |-> listeners[kind][i], state |-> state,
      opened |-> opened, closed |-> closed]]

\* addListener(kind, callback)
AddTo(reg, kind, id) == [reg EXCEPT ![kind] = Append(@, id)]

\* --------------------------------------------------------------- open()
\* open(headers) with its guard spelt out: the call goes ahead in the states `go`
OpenWhen(go, cfg, h) ==
  IF state \notin go
  THEN UNCHANGED << state, opened, xhrCalls, timers, now >>
  ELSE /\ state' = OPEN
       /\ opened' = DateNow /\ now' = DateNow
       /\ timers' = SetTimeout(timers, "OPEN")
       /\ xhrCalls' = xhrCalls \o WireCalls
                        \o << XhrCall("open", cfg.method), XhrCall("timeout", "timeout"),
                              OwnStep("state", OPEN), OwnStep("opened", "Date.now"),
                              OwnStep("setTimeout", "OPEN") >>
                        \o (IF cfg.headers.isNull
                            THEN << >>
                            ELSE HeaderCalls(cfg.headers.entries)
                                 \o (IF h.typeof = "object" THEN HeaderCalls(h.entries)
                                     ELSE << >>)
                                 \o << XhrCall("responseType", cfg.responseType),
                                       XhrCall("send", "body") >>)

\* a guard that only stops a connection that is already closed
OpenBodyUnlessClosed(cfg, h) == OpenWhen({INIT, OPEN}, cfg, h)

\* no guard at all
OpenBodyUnguarded(cfg, h) == OpenWhen(States, cfg, h)

\* an open() that sends the request as soon as it is opened, before the state
\* change, the OPEN emission, the headers and the response type
OpenBodySendsFirst(cfg, h) ==
  IF state # INIT
  THEN UNCHANGED << state, opened, xhrCalls, timers, now >>
  ELSE /\ state' = OPEN
       /\ opened' = DateNow /\ now' = DateNow
       /\ timers' = SetTimeout(timers, "OPEN")
       /\ xhrCalls' = xhrCalls \o WireCalls
                        \o << XhrCall("open", cfg.method), XhrCall("send", "body"),
                              XhrCall("timeout", "timeout"),
                              OwnStep("state", OPEN), OwnStep("opened", "Date.now"),
                              OwnStep("setTimeout", "OPEN") >>
                        \o HeaderCalls(cfg.headers.entries)
                        \o (IF h.typeof = "object" THEN HeaderCalls(h.entries) ELSE << >>)
                        \o << XhrCall("responseType", cfg.responseType) >>

\* the body of open(headers), shared by the constructor's auto-open:
\* if (this.state !== XHRConnection.INIT) return;
OpenBody(cfg, h) == OpenWhen({INIT}, cfg, h)

Open ==
  /\ phase = "ready"
  /\ \E h \in OpenHeaderInputs : OpenBody(config, h)
  /\ calls' = << >>
  /\ call' = [op |-> "open",
               ret |-> IF state # INIT THEN "undefined"
                       ELSE IF config.headers.isNull THEN "throws" ELSE "this"]
  /\ signal' = "none"
  /\ UNCHANGED << phase, config, closed, listeners, nextId, xhrCreated, xhrStatus,
                  abortPending, emitted, signals, initClose >>

\* --------------------------------------------------------------- constructor
ValidListener(l) == l.isObject /\ l.type \in Kinds /\ l.callbackIsFn

ValidOptions(o) ==
  /\ o.method \in ALLOWED_METHODS
  /\ o.responseType \in ALLOWED_RESPONSE_TYPES
  /\ o.headers.typeof = "object"
  /\ o.timeout.isSafeInteger /\ o.timeout.value >= 0
  /\ o.listenersIsArray
  /\ \A i \in 1..Len(o.listeners) : ValidListener(o.listeners[i])

RECURSIVE Register(_, _, _)
Register(reg, id, ls) ==
  IF ls = << >> THEN reg
  ELSE Register(AddTo(reg, Head(ls).type, id), id + 1, Tail(ls))

\* a constructor that ignores the open option
ConstructWithNoAutoOpen(opts) ==
  /\ phase = "new"
  /\ \E o \in opts :
       /\ config' = o
       /\ IF ~ValidOptions(o)
          THEN /\ phase' = "failed"
               /\ UNCHANGED << listeners, nextId, xhrCreated >>
          ELSE /\ phase' = "ready"
               /\ listeners' = Register(listeners, nextId, o.listeners)
               /\ nextId' = nextId + Len(o.listeners)
               /\ xhrCreated' = TRUE
  /\ calls' = << >>
  /\ call' = NoCall
  /\ signal' = "none"
  /\ UNCHANGED << state, opened, xhrCalls, timers, now, closed, xhrStatus, abortPending,
                  emitted, signals, initClose >>

\* new XHRConnection(url, o) for an o drawn from opts; an open() that throws inside
\* the constructor makes the constructor throw
ConstructWith(opts) ==
  /\ phase = "new"
  /\ \E o \in opts :
       /\ config' = o
       /\ IF ~ValidOptions(o)
          THEN /\ phase' = "failed"
               /\ UNCHANGED << state, opened, listeners, nextId,
                               xhrCreated, xhrCalls, timers, now >>
          ELSE /\ phase' = IF o.open /\ o.headers.isNull THEN "failed" ELSE "ready"
               /\ listeners' = Register(listeners, nextId, o.listeners)
               /\ nextId' = nextId + Len(o.listeners)
               /\ xhrCreated' = TRUE
               /\ IF o.open
                  THEN OpenBody(config', NoHeaders)
                  ELSE UNCHANGED << state, opened, xhrCalls, timers, now >>
  /\ calls' = << >>
  /\ call' = NoCall
  /\ signal' = "none"
  /\ UNCHANGED << closed, xhrStatus, abortPending, emitted, signals, initClose >>

Construct == ConstructWith(OptionInputs)

ConstructNullHeaders == ConstructWith(NullHeaderOptionInputs)

\* --------------------------------------------------------------- close()
\* what close() leaves alone in every state, and the ghost of the call
CloseFrame ==
  /\ phase = "ready"
  /\ call' = [op |-> "close", ret |-> "undefined"]
  /\ signal' = "none"
  /\ UNCHANGED << phase, config, opened, listeners, nextId, xhrCreated, xhrCalls,
                  xhrStatus, signals >>

\* close() on an INIT connection that forgets to record the close time
CloseNoStamp ==
  /\ CloseFrame
  /\ calls' = << >>
  /\ IF state = INIT
     THEN /\ state' = CLOSED
          /\ timers' = SetTimeout(timers, "ABORT")
          /\ initClose' = TRUE
          /\ UNCHANGED << closed, abortPending, now, emitted >>
     ELSE IF state = OPEN
     THEN /\ abortPending' = TRUE
          /\ UNCHANGED << state, closed, timers, initClose, now, emitted >>
     ELSE UNCHANGED << state, closed, timers, abortPending, initClose, now, emitted >>

\* close() that aborts the transport whenever the connection is not INIT
CloseAbortsClosed ==
  /\ CloseFrame
  /\ calls' = << >>
  /\ IF state = INIT
     THEN /\ state' = CLOSED
          /\ closed' = DateNow /\ now' = DateNow
          /\ timers' = SetTimeout(timers, "ABORT")
          /\ initClose' = TRUE
          /\ UNCHANGED << abortPending, emitted >>
     ELSE /\ abortPending' = TRUE
          /\ UNCHANGED << state, closed, timers, initClose, now, emitted >>

\* close() that emits ABORT from inside the call instead of deferring it
CloseEmitsNow ==
  /\ CloseFrame
  /\ IF state = INIT
     THEN /\ state' = CLOSED
          /\ closed' = DateNow /\ now' = DateNow
          /\ calls' = Emit("ABORT")
          /\ emitted' = [emitted EXCEPT !["ABORT"] = @ + 1]
          /\ initClose' = TRUE
          /\ UNCHANGED << timers, abortPending >>
     ELSE IF state = OPEN
     THEN /\ abortPending' = TRUE
          /\ calls' = << >>
          /\ UNCHANGED << state, closed, timers, initClose, now, emitted >>
     ELSE /\ calls' = << >>
          /\ UNCHANGED << state, closed, timers, abortPending, initClose, now, emitted >>

\* close() that closes an OPEN connection itself and also aborts the transport
CloseTransitions ==
  /\ CloseFrame
  /\ calls' = << >>
  /\ IF state = INIT
     THEN /\ state' = CLOSED
          /\ closed' = DateNow /\ now' = DateNow
          /\ timers' = SetTimeout(timers, "ABORT")
          /\ initClose' = TRUE
          /\ UNCHANGED << abortPending, emitted >>
     ELSE IF state = OPEN
     THEN /\ state' = CLOSED
          /\ closed' = DateNow /\ now' = DateNow
          /\ timers' = SetTimeout(timers, "ABORT")
          /\ abortPending' = TRUE
          /\ UNCHANGED << initClose, emitted >>
     ELSE UNCHANGED << state, closed, timers, abortPending, initClose, now, emitted >>

Close ==
  /\ CloseFrame
  /\ calls' = << >>
  /\ IF state = INIT
     THEN /\ state' = CLOSED
          /\ closed' = DateNow /\ now' = DateNow
          /\ timers' = SetTimeout(timers, "ABORT")
          /\ initClose' = TRUE
          /\ UNCHANGED << abortPending, emitted >>
     ELSE IF state = OPEN
     THEN /\ abortPending' = TRUE
          /\ UNCHANGED << state, closed, timers, initClose, now, emitted >>
     ELSE UNCHANGED << state, closed, timers, abortPending, initClose, now, emitted >>

\* ------------------------------------------------------- transport callbacks
\* what every transport callback leaves alone; the transport raises signals only
\* for a request that was sent
SignalFrame ==
  /\ SendCount > 0
  /\ signals' = signals + 1
  /\ calls' = << >>
  /\ call' = NoCall
  /\ UNCHANGED << phase, config, opened, listeners, nextId, xhrCreated, xhrCalls,
                  emitted, initClose >>

\* a progress handler that emits DATA from inside the transport callback
XhrProgressEmitsNow ==
  /\ Wired("progress")
  /\ signals < MaxSignals
  /\ SendCount > 0
  /\ signals' = signals + 1
  /\ signal' = "progress"
  /\ calls' = Emit("DATA")
  /\ emitted' = [emitted EXCEPT !["DATA"] = @ + 1]
  /\ call' = NoCall
  /\ UNCHANGED << phase, config, opened, listeners, nextId, xhrCreated, xhrCalls,
                  initClose, timers, state, closed, xhrStatus, abortPending, now >>

XhrProgress ==
  /\ Wired("progress")
  /\ signals < MaxSignals
  /\ SignalFrame
  /\ signal' = "progress"
  /\ timers' = SetTimeout(timers, "DATA")
  /\ UNCHANGED << state, closed, xhrStatus, abortPending, now >>

\* a load handler that leaves the state update to the deferred callback
XhrLoadNoState ==
  /\ Wired("load")
  /\ signals < MaxSignals
  /\ SignalFrame
  /\ signal' = "load"
  /\ \E s \in StatusInputs : xhrStatus' = s
  /\ timers' = SetTimeout(timers, IF xhrStatus' < ErrorStatus THEN "COMPLETE" ELSE "ERROR")
  /\ UNCHANGED << state, closed, now, abortPending >>

\* a load handler without the return after the COMPLETE branch
XhrLoadNoReturn ==
  /\ Wired("load")
  /\ signals < MaxSignals
  /\ SignalFrame
  /\ signal' = "load"
  /\ \E s \in StatusInputs : xhrStatus' = s
  /\ state' = CLOSED
  /\ closed' = DateNow /\ now' = DateNow
  /\ timers' = IF xhrStatus' < ErrorStatus
                THEN SetTimeout(SetTimeout(timers, "COMPLETE"), "ERROR")
                ELSE SetTimeout(timers, "ERROR")
  /\ UNCHANGED abortPending

XhrLoad ==
  /\ Wired("load")
  /\ signals < MaxSignals
  /\ SignalFrame
  /\ signal' = "load"
  /\ \E s \in StatusInputs : xhrStatus' = s
  /\ state' = CLOSED
  /\ closed' = DateNow /\ now' = DateNow
  /\ timers' = SetTimeout(timers, IF xhrStatus' < ErrorStatus THEN "COMPLETE" ELSE "ERROR")
  /\ UNCHANGED abortPending

\* an abort handler that closes the connection but schedules no ABORT event
XhrAbortNoEvent ==
  /\ Wired("abort")
  /\ abortPending
  /\ SignalFrame
  /\ signal' = "abort"
  /\ abortPending' = FALSE
  /\ xhrStatus' = 0
  /\ state' = CLOSED
  /\ closed' = DateNow /\ now' = DateNow
  /\ UNCHANGED timers

XhrAbort ==
  /\ Wired("abort")
  /\ abortPending
  /\ SignalFrame
  /\ signal' = "abort"
  /\ abortPending' = FALSE
  /\ xhrStatus' = 0
  /\ state' = CLOSED
  /\ closed' = DateNow /\ now' = DateNow
  /\ timers' = SetTimeout(timers, "ABORT")

\* an error handler that forgets to record the close time
XhrErrorNoStamp ==
  /\ Wired("error")
  /\ signals < MaxSignals
  /\ SignalFrame
  /\ signal' = "error"
  /\ xhrStatus' = 0
  /\ state' = CLOSED
  /\ timers' = SetTimeout(timers, "ERROR")
  /\ UNCHANGED << abortPending, closed, now >>

XhrError ==
  /\ Wired("error")
  /\ signals < MaxSignals
  /\ SignalFrame
  /\ signal' = "error"
  /\ xhrStatus' = 0
  /\ state' = CLOSED
  /\ closed' = DateNow /\ now' = DateNow
  /\ timers' = SetTimeout(timers, "ERROR")
  /\ UNCHANGED abortPending

\* a timeout handler that reports the timeout as an abort
XhrTimeoutAborts ==
  /\ Wired("timeout")
  /\ signals < MaxSignals
  /\ SignalFrame
  /\ signal' = "timeout"
  /\ xhrStatus' = 0
  /\ state' = CLOSED
  /\ closed' = DateNow /\ now' = DateNow
  /\ timers' = SetTimeout(timers, "ABORT")
  /\ UNCHANGED abortPending

XhrTimeout ==
  /\ Wired("timeout")
  /\ signals < MaxSignals
  /\ SignalFrame
  /\ signal' = "timeout"
  /\ xhrStatus' = 0
  /\ state' = CLOSED
  /\ closed' = DateNow /\ now' = DateNow
  /\ timers' = SetTimeout(timers, "ERROR")
  /\ UNCHANGED abortPending

\* ------------------------------------------------------------- event loop
\* the oldest zero-delay timer runs: this.emit(kind, new ConnectionEvent(this, kind))
RunTimer ==
  /\ timers # << >>
  /\ calls' = Emit(Head(timers))
  /\ emitted' = [emitted EXCEPT ![Head(timers)] = @ + 1]
  /\ timers' = Tail(timers)
  /\ call' = NoCall
  /\ signal' = "none"
  /\ UNCHANGED << phase, config, state, opened, closed, listeners, nextId, xhrCreated,
                  xhrCalls, xhrStatus, abortPending, now, signals, initClose >>

\* addListener(kind, callback), called by the user in a turn of its own
AddListener ==
  /\ phase = "ready"
  /\ nextId - Len(config.listeners) <= MaxListeners
  /\ \E k \in Kinds : listeners' = AddTo(listeners, k, nextId)
  /\ nextId' = nextId + 1
  /\ calls' = << >>
  /\ call' = NoCall
  /\ signal' = "none"
  /\ UNCHANGED << phase, config, state, opened, closed, xhrCreated, xhrCalls, xhrStatus,
                  abortPending, timers, emitted, now, signals, initClose >>

Next ==
  \/ Construct
  \/ Open
  \/ Close
  \/ XhrProgress
  \/ XhrLoad
  \/ XhrAbort
  \/ XhrError
  \/ XhrTimeout
  \/ RunTimer
  \/ AddListener

Spec == Init /\ [][Next]_vars

\* the same connection, with headers: null among the constructor's options
NextNullHeaders == Next \/ ConstructNullHeaders

SpecNullHeaders == Init /\ [][NextNullHeaders]_vars

\* the connection with the listeners its constructor registered: addListener only
\* extends the registry, which no guard of open(), close(), a transport callback or
\* a timer reads
NextFair ==
  \/ Construct
  \/ Open
  \/ Close
  \/ XhrProgress
  \/ XhrLoad
  \/ XhrAbort
  \/ XhrError
  \/ XhrTimeout
  \/ RunTimer

\* the event loop runs every timer that is due, and the transport answers every
\* abort() with its abort signal
FairSpec == Init /\ [][NextFair]_vars /\ WF_vars(RunTimer) /\ WF_vars(XhrAbort)

\* ------------------------------------------------------------------ claims

\* C1: the state only moves forward, INIT -> OPEN -> CLOSED or INIT -> CLOSED: no
\* step takes it from OPEN back to INIT, or from CLOSED to OPEN or INIT.
StateOnlyMovesForward ==
  [][ /\ (state = OPEN => state' \in {OPEN, CLOSED})
      /\ (state = CLOSED => state' = CLOSED) ]_vars

\* C1 witness: a connection went INIT -> OPEN -> CLOSED and open() was then called
\* on it again.
ReopenAfterFullLifecycle ==
  /\ state = CLOSED
  /\ opened # Null
  /\ call = [op |-> "open", ret |-> "undefined"]

CloseBeforeOpenAborts ==
  initClose =>
    /\ state = CLOSED
    /\ closed # Null
    /\ Enqueued("ABORT") = 1
    /\ SendCount = 0

\* C3 witness: open() was called after the connection had been closed in INIT and
\* its ABORT event had been delivered.
OpenAfterCloseInInit ==
  /\ initClose
  /\ emitted["ABORT"] = 1
  /\ call.op = "open"

\* C4: close() on a CLOSED connection changes neither state, opened nor closed,
\* schedules no event and requests no transport abort.
CloseWhenClosedIsNoOp ==
  [][ Close /\ state = CLOSED =>
        UNCHANGED << state, opened, closed, timers, emitted, abortPending, xhrCalls >> ]_vars

\* C4 witness: close() was called on a connection that a transport signal had
\* already closed.
CloseCalledWhenClosed ==
  /\ call.op = "close"
  /\ state = CLOSED
  /\ ~initClose
  /\ ~abortPending

\* C5: every DATA listener is invoked while the state is OPEN.
DataDeliveredWhileOpen ==
  \A i \in 1..Len(calls) : calls[i].kind = "DATA" => calls[i].state = OPEN

\* C6: opened and closed are each written at most once: a timestamp that is set is
\* never changed by a later step.
TimestampsWrittenOnce ==
  [][ /\ (opened # Null => opened' = opened)
      /\ (closed # Null => closed' = closed) ]_vars

\* C7: an OPEN listener never sees state INIT or opened unset; a COMPLETE, ERROR or
\* ABORT listener always sees state CLOSED and closed set.
StateUpdatedBeforeListeners ==
  \A i \in 1..Len(calls) :
    /\ (calls[i].kind = "OPEN" => calls[i].state # INIT /\ calls[i].opened # Null)
    /\ (calls[i].kind \in {"COMPLETE", "ERROR", "ABORT"} =>
          calls[i].state = CLOSED /\ calls[i].closed # Null)

\* C7 witness: a COMPLETE listener has just been invoked.
CompleteListenerInvoked ==
  \E i \in 1..Len(calls) : calls[i].kind = "COMPLETE"

\* C8: listeners run only in a timer turn, never in the turn of open(), close(),
\* the constructor or a transport callback; and the timer turn invokes every
\* callback registered by then, so one registered while the emission was pending
\* receives it too.
EmissionsAreDeferred ==
  [][ /\ (calls' # << >> \/ emitted' # emitted =>
            /\ timers # << >>
            /\ timers' = Tail(timers)
            /\ call' = NoCall
            /\ signals' = signals
            /\ phase' = phase
            /\ Len(calls') = Len(listeners[Head(timers)])
            /\ \A i \in 1..Len(calls') : calls'[i].listener = listeners[Head(timers)][i])
      /\ (call'.op # "none" \/ signals' # signals \/ phase' # phase =>
            calls' = << >> /\ emitted' = emitted) ]_vars

\* C8 witness: the constructor opened the connection (open: true), a listener was
\* registered with addListener after it returned, and that listener has been
\* invoked with the OPEN event.
LateListenerReceivesOpen ==
  /\ config.open
  /\ \E i \in 1..Len(calls) :
       calls[i].kind = "OPEN" /\ calls[i].listener > Len(config.listeners)

\* C9: close() on an OPEN connection only requests the transport abort: it changes
\* neither state nor closed and schedules no event; the abort signal's handler
\* closes the connection and schedules the ABORT event; no other step of an opened
\* connection schedules an ABORT, and at most one ABORT is ever scheduled.
CloseWhenOpenOnlyRequestsAbort ==
  [][ /\ (Close /\ state = OPEN =>
            /\ abortPending'
            /\ UNCHANGED << state, opened, closed, timers, emitted >>)
      /\ (XhrAbort =>
            /\ state' = CLOSED
            /\ closed' # Null
            /\ timers' = Append(timers, "ABORT"))
      /\ (Enqueued("ABORT")' # Enqueued("ABORT") => XhrAbort \/ (Close /\ state = INIT))
      /\ Enqueued("ABORT")' <= 1 ]_vars

\* C9 witness: close() was called on an OPEN connection and the abort signal that
\* followed closed it, with its one ABORT event delivered.
AbortedAfterCloseWhenOpen ==
  /\ state = CLOSED
  /\ ~initClose
  /\ ~abortPending
  /\ emitted["ABORT"] = 1
  /\ emitted["COMPLETE"] = 0
  /\ emitted["ERROR"] = 0

\* C10: every transport signal schedules exactly one event, of the kind that
\* belongs to it: progress DATA, load COMPLETE below status 400 and ERROR from 400
\* on, abort ABORT, error ERROR, timeout ERROR.
EachSignalSchedulesOneEvent ==
  [][ /\ (XhrProgress => timers' = Append(timers, "DATA"))
      /\ (XhrLoad => timers' = Append(timers, IF xhrStatus' < 400 THEN "COMPLETE" ELSE "ERROR"))
      /\ (XhrAbort => timers' = Append(timers, "ABORT"))
      /\ (XhrError => timers' = Append(timers, "ERROR"))
      /\ (XhrTimeout => timers' = Append(timers, "ERROR"))
      /\ (signals' # signals => Len(timers') = Len(timers) + 1 /\ emitted' = emitted) ]_vars

\* C10 witness: a load with status 400 was the only signal, and it scheduled one
\* ERROR and no COMPLETE.
Load400SchedulesError ==
  /\ signals = 1
  /\ xhrStatus = 400
  /\ Enqueued("ERROR") = 1
  /\ Enqueued("COMPLETE") = 0

\* C11: a timeout is reported as ERROR: the timeout handler schedules an ERROR and
\* no ABORT; no load, error, timeout or progress signal changes the number of ABORT
\* events; and a step that schedules an ABORT is the abort signal's handler or
\* close() on an INIT connection.
TimeoutIsErrorNotAbort ==
  [][ /\ (signal' = "timeout" =>
            /\ timers' = Append(timers, "ERROR")
            /\ Enqueued("ABORT")' = Enqueued("ABORT"))
      /\ (signal' \in {"load", "error", "timeout", "progress"} =>
            Enqueued("ABORT")' = Enqueued("ABORT"))
      /\ (Enqueued("ABORT")' > Enqueued("ABORT") =>
            \/ signal' = "abort"
            \/ (call'.op = "close" /\ state = INIT)) ]_vars

\* C11 witness: the timeout signal has just been handled on a connection on which
\* close() was never called: an ERROR is scheduled and no ABORT.
TimeoutScheduledError ==
  /\ signal = "timeout"
  /\ state = CLOSED
  /\ ~initClose
  /\ Count("ERROR", timers) >= 1
  /\ Enqueued("ABORT") = 0

\* C12: once the connection is CLOSED no step changes its state or schedules an
\* event, and at most one of COMPLETE, ERROR and ABORT is ever scheduled.
NothingFollowsClosed ==
  [][ /\ (state = CLOSED =>
            /\ state' = CLOSED
            /\ \A k \in Kinds : Enqueued(k)' = Enqueued(k))
      /\ Enqueued("COMPLETE")' + Enqueued("ERROR")' + Enqueued("ABORT")' <= 1 ]_vars

\* C13: the timer turns deliver the emissions in the order they were scheduled,
\* and each delivery invokes every callback registered for the kind once, in
\* registration order: every step that schedules an emission puts it behind the
\* pending ones, and every delivery is of the oldest pending emission.
ListenersInvokedInOrder ==
  [][ /\ (Len(timers') > Len(timers) =>
            SubSeq(timers', 1, Len(timers)) = timers /\ Len(timers') = Len(timers) + 1)
      /\ (emitted' # emitted \/ calls' # << >> =>
            /\ timers # << >>
            /\ emitted' = [emitted EXCEPT ![Head(timers)] = @ + 1]
            /\ timers' = Tail(timers)
            /\ calls' = [i \in 1..Len(listeners[Head(timers)]) |->
                           [kind |-> Head(timers), listener |-> listeners[Head(timers)][i],
                            state |-> state, opened |-> opened, closed |-> closed]])
      /\ (\A k \in Kinds : \A i, j \in 1..Len(listeners'[k]) :
            i < j => listeners'[k][i] < listeners'[k][j]) ]_vars

\* C13 witness: two DATA listeners, the first registered by the constructor and the
\* second with addListener, have just been invoked in that order for the second of
\* two progress signals.
TwoListenersSecondData ==
  /\ emitted["DATA"] = 2
  /\ Len(calls) = 2
  /\ calls[1].kind = "DATA" /\ calls[1].listener = 1
  /\ calls[2].kind = "DATA" /\ calls[2].listener = 2

\* C14: a construction whose options are invalid (a method or response type
\* outside the allowed ones, headers that are not an object, null included, a
\* timeout that is not a non-negative safe integer, listeners that are not an array
\* of valid listener objects) fails, and it fails before the transport handle
\* exists: the connection stays INIT, open() has not started and no event is
\* scheduled or delivered.
InvalidOptionsFailEarly ==
  (phase # "new" /\ (~ValidOptions(config) \/ config.headers.isNull)) =>
    /\ phase = "failed"
    /\ ~xhrCreated
    /\ state = INIT
    /\ xhrCalls = << >>
    /\ timers = << >>
    /\ \A k \in Kinds : emitted[k] = 0

\* C15: a construction with open: true leaves the connection opened, with one send
\* and one OPEN event scheduled, and with every listener of the options
\* registered; the delivery of that OPEN event invokes each OPEN listener of the
\* options exactly once; and a load with status 200 then closes the connection and
\* schedules one COMPLETE event.
AutoOpenAtConstruction ==
  [][ /\ (phase' = "ready" /\ config'.open =>
            /\ state' # INIT
            /\ opened' # Null
            /\ SendCount' = 1
            /\ Enqueued("OPEN")' = 1)
      /\ (phase = "new" /\ phase' = "ready" /\ config'.open =>
            /\ state' = OPEN
            /\ timers' = << "OPEN" >>
            /\ \A i \in 1..Len(config'.listeners) :
                  \E j \in 1..Len(listeners'[config'.listeners[i].type]) :
                    listeners'[config'.listeners[i].type][j] = i)
      /\ (phase = "ready" /\ config.open /\ emitted'["OPEN"] > emitted["OPEN"] =>
            /\ emitted'["OPEN"] = 1
            /\ \A i \in 1..Len(config.listeners) :
                  config.listeners[i].type = "OPEN" =>
                    Cardinality({j \in 1..Len(calls') :
                                   calls'[j].kind = "OPEN" /\ calls'[j].listener = i}) = 1)
      /\ (phase = "ready" /\ config.open /\ signal' = "load" /\ xhrStatus' = 200 =>
            /\ state' = CLOSED
            /\ timers' = Append(timers, "COMPLETE")) ]_vars

\* C15 witness: the constructor opened the connection (no open() call with headers
\* of its own was made), the OPEN listener of the options received the OPEN event,
\* and a load with status 200, the only signal, closed the connection with one
\* COMPLETE event delivered.
AutoOpenedThenCompleted ==
  /\ phase = "ready"
  /\ config.open
  /\ Len(config.listeners) = 1 /\ config.listeners[1].type = "OPEN"
  /\ Count(XhrCall("setRequestHeader", "X-Extra"), xhrCalls) = 0
  /\ SendCount = 1
  /\ emitted["OPEN"] = 1
  /\ signals = 1
  /\ xhrStatus = 200
  /\ state = CLOSED
  /\ emitted["COMPLETE"] = 1
  /\ emitted["ERROR"] = 0

\* C16: open() returns the connection itself in whatever state it is called.
OpenReturnsItself ==
  call.op = "open" => call.ret = "this"

\* the place of the one step named c among the steps of open()
StepAt(c) == CHOOSE i \in 1..Len(xhrCalls) : xhrCalls[i].call = c

\* the places of the steps named c among the steps of open()
StepsAt(c) == {i \in 1..Len(xhrCalls) : xhrCalls[i].call = c}

\* C17: the steps of open() are all taken in one call, on a connection that took
\* none before, and come in this order: the five handlers are
\* wired, the request is opened, the timeout is applied, the state becomes OPEN,
\* opened is stamped, the OPEN emission is scheduled, the headers are applied (the
\* connection's before those of the call), the response type is set, and the send
\* comes last; and every transport callback finds a state other than INIT.
OpenStepsInOrder ==
  [][ /\ (xhrCalls' # xhrCalls =>
            /\ xhrCalls = << >>
            /\ SendCount' = 1
            /\ Cardinality(StepsAt("addEventListener")') = 5
            /\ \A c \in {"open", "timeout", "state", "opened", "setTimeout",
                           "responseType", "send"} : Cardinality(StepsAt(c)') = 1
            /\ \A i \in StepsAt("addEventListener")' : i < StepAt("open")'
            /\ StepAt("open")' < StepAt("timeout")'
            /\ StepAt("timeout")' < StepAt("state")'
            /\ StepAt("state")' < StepAt("opened")'
            /\ StepAt("opened")' < StepAt("setTimeout")'
            /\ \A i \in StepsAt("setRequestHeader")' :
                  StepAt("setTimeout")' < i /\ i < StepAt("responseType")'
            /\ \A i, j \in StepsAt("setRequestHeader")' :
                  xhrCalls'[i].arg = "Accept" /\ xhrCalls'[j].arg = "X-Extra" => i < j
            /\ StepAt("setTimeout")' < StepAt("responseType")'
            /\ StepAt("responseType")' < StepAt("send")'
            /\ StepAt("send")' = Len(xhrCalls'))
      /\ (signal' # "none" => state # INIT /\ SendCount > 0) ]_vars

\* C17 witness: open() has just run to its end on an INIT connection, with headers
\* of its own.
OpenCompletedWithHeaders ==
  /\ call = [op |-> "open", ret |-> "this"]
  /\ state = OPEN
  /\ SendCount = 1
  /\ Count(XhrCall("setRequestHeader", "X-Extra"), xhrCalls) = 1

EventsInLifecycleOrder ==
  /\ (Count("OPEN", timers) > 0 =>
        /\ Head(timers) = "OPEN"
        /\ \A k \in Kinds \ {"OPEN"} : emitted[k] = 0)
  /\ (~initClose /\ (\E k \in Kinds \ {"OPEN"} : Enqueued(k) > 0) => Enqueued("OPEN") = 1)
  /\ (initClose => \A k \in Kinds \ {"ABORT"} : Enqueued(k) = 0)

\* C19 witness: OPEN, DATA and COMPLETE have all been delivered on one connection.
OpenDataCompleteDelivered ==
  /\ emitted["OPEN"] = 1
  /\ emitted["DATA"] = 1
  /\ emitted["COMPLETE"] = 1
  /\ timers = << >>

\* C20: if the event loop runs every timer and the transport answers every
\* abort(), each close() call is followed by state CLOSED with a terminal event
\* (ABORT, COMPLETE or ERROR) delivered, and pending emissions are always
\* delivered in the end.
CloseEventuallyCloses ==
  /\ (call.op = "close") ~>
        (state = CLOSED /\ emitted["ABORT"] + emitted["COMPLETE"] + emitted["ERROR"] > 0)
  /\ (timers # << >>) ~> (timers = << >>)

\* C20 witness: close() was called on an OPEN connection after the signals before
\* it, the abort signal closed the connection, and every emission is delivered.
ClosedAndDrainedAfterClose ==
  /\ state = CLOSED
  /\ signal = "none"
  /\ signals > 1
  /\ ~initClose
  /\ emitted["ABORT"] = 1
  /\ timers = << >>

====
